---- MODULE Spec2Model ----
(***************************************************************************)
(* Model of the Shariah audit assistant: the audit pipeline of             *)
(* shariah_audit_assistant.py (extraction, per-clause compliance check,    *)
(* source attribution, severity/category classification, remediation,     *)
(* aggregation), its retrying gateway safe_invoke, and the HTTP handlers   *)
(* of app.py that expose it.                                               *)
(*                                                                         *)
(* Python values are tagged records [t |-> type, v |-> payload]:           *)
(*   str  : v is the text as a sequence of words                           *)
(*   bool : v is <<"true">> or <<"false">>                                 *)
(*   null : v is << >>                                                     *)
(*   list : v is the sequence of the items (each a text, i.e. a sequence   *)
(*          of words)                                                      *)
(*   obj  : v is a function from the keys to values                        *)
(* A text returned by the reasoning service is a sequence of tokens, each  *)
(* a fragment of the text: prose, a ``` fence, a complete strict-JSON      *)
(* document, an object written with Python quoting, or a brace span that   *)
(* is no JSON at all.                                                      *)
(***************************************************************************)
EXTENDS Integers, Sequences, FiniteSets, TLC

VARIABLES
    pc,                 \* position of the request being served
    op,                 \* which operation is served: "none", "audit", "extract", "check_clause"
    http_status,        \* status of the HTTP answer, 0 while there is none
    http_body,          \* kind of the answer's body: "none", "verdict", "product", "assessment", "error"
    verdict,            \* the dict returned by audit_product_description
    outcome,            \* of the core call: "none", "running", "returned", "raised"
    structured_data,    \* audit_product_description: structured_data
    suspicious_terms,   \* audit_product_description: suspicious_terms
    idx,                \* position of the for loop in suspicious_terms
    result,             \* audit_product_description: result (of the current clause)
    audit_results,      \* audit_product_description: audit_results
    si_log,             \* outcomes of the invocations of the current safe_invoke call
    si_status,          \* of the current safe_invoke call: "idle", "active", "returned", "raised"
    last_response,      \* the text the last compliance check got from the service
    failed_at,          \* the step at which the core call raised, "none" if it has not
    extract_invocations, \* invocations of the service made by extract_structured_data
    request,            \* the required text of the request: "none", "missing", "empty", "text"
    clause,             \* the clause being checked
    waited,             \* tenths of a second slept by the loop since its last
                        \* compliance-check request
    p_pc,               \* _safe_parse_json run alone: "idle", "called", "returned"
    p_text,             \* the text it is given
    p_value,            \* the value p_text serializes, when it is a serialization
    p_parsed,           \* what it returned
    s_pc,               \* find_source_for_clause run alone: "idle", "called", "returned",
                        \* "raised", "attached"
    s_outcome,          \* of similarity_search: "hit", "miss", "error"
    s_doc,              \* the best chunk of a hit
    s_info,             \* what find_source_for_clause returned
    s_before,           \* the assessment before result.update
    s_result,           \* the assessment after it
    c_pc,               \* the classifiers run alone: "idle", "called", "severity", "done"
    c_reason,           \* the reason text they are given
    c_severity,         \* what classify_severity returned
    c_category,         \* what classify_violation_category returned
    i_pc,               \* _create_vector_db run alone: "idle", "called", "loading", "split"
    i_folder,           \* the files of pdf_folder, in os.listdir order
    i_pdf_files,        \* _create_vector_db: pdf_files
    i_next,             \* position of the for loop in pdf_files
    i_all_docs,         \* _create_vector_db: all_docs
    i_chunks,           \* _create_vector_db: chunks
    i_store,            \* the chunks the collection persisted in chroma_db holds
    i_builds,           \* how many times the index has been built at that location
    v_phase,            \* the service process: "down", "importing", "building", "serving",
                        \* "exited"
    v_builds,           \* index builds started by the process
    v_threads,          \* per request thread: the operation served, its position and
                        \* the index queries it has made
    q_pc,               \* search_standards run alone: "idle", "called", "primary",
                        \* "fallback", "simulate", "returned", "raised"
    q_key,              \* whether self.search_api_key is set
    q_max,              \* max_results
    q_query,            \* the concept keywords the query holds
    q_endpoint,         \* position of _search_fallback in self.fallback_endpoints
    q_attempts,         \* attempts of search_standards made by the retry decorator
    q_log,              \* the sources queried so far, each with what it did
    q_results,          \* the list returned
    z_pc,               \* calculate_zakat_amount run alone: "idle", "called", "base", "done"
    z_sheet,            \* financial_data["balance_sheet"]: the value of each account,
                        \* in hundredths of the currency unit
    z_calc              \* calculation, the dict it builds and returns

auditVars == <<pc, op, http_status, http_body, verdict, outcome, structured_data,
          suspicious_terms, idx, result, audit_results, si_log, si_status,
          last_response, failed_at, extract_invocations, request, clause, waited>>

parserVars == <<p_pc, p_text, p_value, p_parsed>>

sourceVars == <<s_pc, s_outcome, s_doc, s_info, s_before, s_result>>

classifyVars == <<c_pc, c_reason, c_severity, c_category>>

ingestVars == <<i_pc, i_folder, i_pdf_files, i_next, i_all_docs, i_chunks, i_store,
               i_builds>>

serviceVars == <<v_phase, v_builds, v_threads>>

searchVars == <<q_pc, q_key, q_max, q_query, q_endpoint, q_attempts, q_log, q_results>>

zakatVars == <<z_pc, z_sheet, z_calc>>

harnessVars ==
    <<parserVars, sourceVars, classifyVars, ingestVars, serviceVars, searchVars, zakatVars>>

vars == <<auditVars, harnessVars>>

(***************************************************************************)
(* Bounds of the model and constants of the program.                       *)
(***************************************************************************)
MaxTerms == 2           \* longest suspicious_terms list the extraction answers with

MaxTextLen == 3         \* most fragments of a text given to _safe_parse_json alone

MaxReasonLen == 3       \* most words of a reason text given to the classifiers alone

MaxFiles == 2           \* most files of the document folder

MaxBuilds == 2          \* most builds of the index at one persisted location

MaxThreads == 2         \* most requests served at the same time

MaxResults == 3         \* largest max_results given to search_standards alone

MaxItems == 4           \* most items in the answer of a search source

ChunkSize == 1000        \* RecursiveCharacterTextSplitter(chunk_size=1000, ...)

ChunkOverlap == 150      \* RecursiveCharacterTextSplitter(..., chunk_overlap=150)

SleepTenths == 11        \* time.sleep(1.1), in tenths of a second

SearchAttempts == 3      \* stop_after_attempt(3) of search_standards

NumFallbacks == 2        \* len(self.fallback_endpoints)

NisabGold == 85          \* grams of gold

NisabSilver == 595       \* grams of silver

GoldPerGram == 70        \* METAL_PRICES["gold_per_gram"]

SilverPerGramCents == 85 \* METAL_PRICES["silver_per_gram"] = 0.85, in hundredths

RatePerMille == 25       \* "rate": 0.025, in thousandths

MaxAttempts == 5        \* stop_after_attempt(5)

ExcerptLen == 300       \* doc.page_content[:300]

(***************************************************************************)
(* Python values.                                                          *)
(***************************************************************************)
JNull == [t |-> "null", v |-> << >>]

JStr(words) == [t |-> "str", v |-> words]

JBool(b) == [t |-> "bool", v |-> IF b THEN <<"true">> ELSE <<"false">>]

JList(items) == [t |-> "list", v |-> items]

Obj(f) == [t |-> "obj", v |-> f]

EmptyDict == Obj(<< >>)

IsDict(x) == x.t = "obj"

Has(d, k) == IsDict(d) /\ k \in DOMAIN d.v

\* d[k] = x
DictSet(d, k, x) ==
    Obj([j \in DOMAIN d.v \cup {k} |-> IF j = k THEN x ELSE d.v[j]])

\* {**d, **e} and d.update(e)
DictMerge(d, e) ==
    Obj([j \in DOMAIN d.v \cup DOMAIN e.v |-> IF j \in DOMAIN e.v THEN e.v[j] ELSE d.v[j]])

\* Python's truth value of x, as `not x` and all(...) take it
Truthy(x) ==
    CASE x.t = "bool" -> x.v = <<"true">>
      [] x.t = "null" -> FALSE
      [] x.t = "str"  -> x.v # << >>
      [] x.t = "list" -> x.v # << >>
      [] x.t = "obj"  -> DOMAIN x.v # {}

\* str.lower(), word by word
LowerWord(w) ==
    CASE w = "Riba" -> "riba"
      [] w = "RIBA" -> "riba"
      [] w = "Gharar" -> "gharar"
      [] w = "Uncertainty" -> "uncertainty"
      [] w = "Maysir" -> "maysir"
      [] w = "Haram" -> "haram"
      [] w = "Prohibited" -> "prohibited"
      [] w = "Minor" -> "minor"
      [] w = "This" -> "this"
      [] w = "Failed" -> "failed"
      [] w = "Cash" -> "cash"
      [] w = "Inventory" -> "inventory"
      [] w = "Accounts" -> "accounts"
      [] w = "Payable" -> "payable"
      [] w = "Bank" -> "bank"
      [] w = "Loan" -> "loan"
      [] OTHER -> w

Lower(words) == [i \in 1..Len(words) |-> LowerWord(words[i])]

\* the word w ends with the characters k
EndsWith(w, k) == w = k \/ (w = "non-haram" /\ k = "haram")

\* the word w starts with the characters k
StartsWith(w, k) == w = k \/ (w = "activity." /\ k = "activity")

\* the characters k occur in the word w
Embeds(w, k) == StartsWith(w, k) \/ EndsWith(w, k) \/ (w = "tribal" /\ k = "riba")

\* `kw in text`, for a keyword of one or more words: a substring of the text,
\* so its first word may end a word of the text and its last word start one
Contains(text, kw) ==
    \E i \in 1..(Len(text) - Len(kw) + 1) :
        \A j \in 1..Len(kw) :
            LET w == text[i + j - 1]
            IN  IF Len(kw) = 1 THEN Embeds(w, kw[j])
                ELSE IF j = 1 THEN EndsWith(w, kw[j])
                ELSE IF j = Len(kw) THEN StartsWith(w, kw[j])
                ELSE w = kw[j]

(***************************************************************************)
(* Texts of the reasoning service, and json.loads.                         *)
(***************************************************************************)
Prose == [k |-> "prose", val |-> JNull]

Fence == [k |-> "fence", val |-> JNull]

Json(x) == [k |-> "json", val |-> x]          \* the strict JSON serialization of x

PyObj(d) == [k |-> "pyobj", val |-> d]        \* d with single quotes, True/False

BadBrace == [k |-> "badbrace", val |-> JNull] \* {...} that is no JSON, repaired or not

\* the start {"note": " and the end "} of an object whose one member is a
\* string; the tokens between them are the content of that string
ObjOpen == [k |-> "objopen", val |-> JNull]

ObjClose == [k |-> "objclose", val |-> JNull]

\* a fragment that can stand inside a JSON string: it holds no double quote
InString(tok) ==
    \/ tok.k \in {"prose", "fence", "badbrace", "pyobj"}
    \/ tok.k = "json" /\ tok.val.t \in {"bool", "null"}

\* the characters of a fragment inside a string, as one word of the string
WordOf(tok) ==
    CASE tok.k = "fence" -> "fence"
      [] tok.k = "badbrace" -> "badbrace"
      [] tok.k = "pyobj" -> "pyobj"
      [] tok.k = "json" /\ tok.val.t = "bool" -> tok.val.v[1]
      [] tok.k = "json" /\ tok.val.t = "null" -> "null"
      [] OTHER -> "text"

TokenOf(word) ==
    CASE word = "fence" -> Fence
      [] word = "badbrace" -> BadBrace
      [] word = "true" -> Json(JBool(TRUE))
      [] word = "false" -> Json(JBool(FALSE))
      [] word = "null" -> Json(JNull)
      [] OTHER -> Prose

\* json.loads(text) succeeds: the text is one JSON document (and white space)
JsonOk(text) ==
    \/ Len(text) = 1 /\ text[1].k = "json"
    \/ /\ Len(text) >= 2
       /\ text[1].k = "objopen"
       /\ text[Len(text)].k = "objclose"
       /\ \A i \in 2..(Len(text) - 1) : InString(text[i])

JsonLoads(text) ==
    IF Len(text) = 1
    THEN text[1].val
    ELSE Obj([note |-> JStr([i \in 1..(Len(text) - 2) |-> WordOf(text[i + 1])])])

\* json.dumps(v): the text json.loads reads v from
Serialize(v) ==
    IF IsDict(v) /\ DOMAIN v.v = {"note"} /\ v.v["note"].t = "str"
    THEN <<ObjOpen>> \o [i \in 1..Len(v.v["note"].v) |-> TokenOf(v.v["note"].v[i])]
             \o <<ObjClose>>
    ELSE <<Json(v)>>

HasBrace(tok) ==
    \/ tok.k \in {"pyobj", "badbrace", "objopen", "objclose"}
    \/ tok.k = "json" /\ tok.val.t = "obj"

\* re.findall(r'```(?:json)?\s*([\s\S]*?)```', text): the bodies between the
\* 1st and 2nd fence, the 3rd and 4th, ...
FencePositions(text) == {i \in 1..Len(text) : text[i].k = "fence"}

RECURSIVE SortedSeq(_)
SortedSeq(S) ==
    IF S = {} THEN << >>
    ELSE LET m == CHOOSE a \in S : \A b \in S : a <= b
         IN  <<m>> \o SortedSeq(S \ {m})

FencedBodies(text) ==
    LET f == SortedSeq(FencePositions(text))
    IN  [j \in 1..(Len(f) \div 2) |-> SubSeq(text, f[2 * j - 1] + 1, f[2 * j] - 1)]

\* re.findall(r'(\{[\s\S]*\})', text): greedy, from the first brace to the last
BraceSpans(text) ==
    LET B == {i \in 1..Len(text) : HasBrace(text[i])}
    IN  IF B = {} THEN << >>
        ELSE LET lo == CHOOSE a \in B : \A b \in B : a <= b
                 hi == CHOOSE a \in B : \A b \in B : a >= b
             IN  <<SubSeq(text, lo, hi)>>

\* text.replace("'", '"').replace("True", "true").replace("False", "false")
FixToken(tok) == IF tok.k = "pyobj" THEN Json(tok.val) ELSE tok

FixText(text) == [i \in 1..Len(text) |-> FixToken(text[i])]

\* a parser that gives None when nothing parses
SafeParseJsonNone(text) ==
    LET candidates == FencedBodies(text) \o BraceSpans(text)
        good == {i \in 1..Len(candidates) : JsonOk(candidates[i])}
        fixed == BraceSpans(FixText(text))
    IN  IF good # {}
        THEN JsonLoads(candidates[CHOOSE i \in good : \A j \in good : i <= j])
        ELSE IF fixed # << >> /\ JsonOk(fixed[1])
        THEN JsonLoads(fixed[1])
        ELSE JNull

\* a parser that looks into fenced blocks only
SafeParseJsonFencedOnly(text) ==
    LET candidates == FencedBodies(text)
        good == {i \in 1..Len(candidates) : JsonOk(candidates[i])}
    IN  IF good # {}
        THEN JsonLoads(candidates[CHOOSE i \in good : \A j \in good : i <= j])
        ELSE EmptyDict

\* ShariahAuditAssistant._safe_parse_json
SafeParseJson(text) ==
    LET candidates == FencedBodies(text) \o BraceSpans(text)
        good == {i \in 1..Len(candidates) : JsonOk(candidates[i])}
        fixed == BraceSpans(FixText(text))
    IN  IF good # {}
        THEN JsonLoads(candidates[CHOOSE i \in good : \A j \in good : i <= j])
        ELSE IF fixed # << >> /\ JsonOk(fixed[1])
        THEN JsonLoads(fixed[1])
        ELSE EmptyDict

(***************************************************************************)
(* The assistant's methods.                                                *)
(***************************************************************************)
\* extract_structured_data: default
DefaultProduct ==
    Obj([product_type |-> JNull, main_parties |-> JList(<< >>),
         contract_type |-> JNull, key_clauses |-> JList(<< >>),
         financial_terms |-> JList(<< >>), suspicious_terms |-> JList(<< >>)])

\* extract_structured_data raises on {**default, **x} when x is no mapping
ExtractRaises(response) == ~IsDict(SafeParseJson(response))

\* extract_structured_data: return {**default, **self._safe_parse_json(response)}
ExtractStructuredData(response) == DictMerge(DefaultProduct, SafeParseJson(response))

FailedToParse == JStr(<<"Failed", "to", "parse", "compliance", "data">>)

\* a check that passes the clause when the response does not parse
CheckClauseComplianceFailOpen(c, response) ==
    IF JsonOk(response)
    THEN JsonLoads(response)
    ELSE Obj([clause |-> JStr(c), compliant |-> JBool(TRUE), reason |-> FailedToParse])

\* check_clause_compliance, given the response safe_invoke returned
CheckClauseCompliance(c, response) ==
    IF JsonOk(response)
    THEN JsonLoads(response)
    ELSE Obj([clause |-> JStr(c), compliant |-> JBool(FALSE), reason |-> FailedToParse])

Take(text, n) == SubSeq(text, 1, IF Len(text) < n THEN Len(text) ELSE n)

\* find_source_for_clause: the dict built from the best chunk
SourceInfo(doc) ==
    Obj([source_doc |-> JStr(<<doc.source>>),
         source_text |-> JStr(Take(doc.page_content, ExcerptLen))])

\* a lookup that lets an error of the index escape
FindSourceForClauseRaises(s, doc) ==
    IF s = "hit"
    THEN [raised |-> FALSE, value |-> SourceInfo(doc)]
    ELSE [raised |-> s = "error", value |-> JNull]

\* find_source_for_clause, for the outcome s of similarity_search(clause, k=1)
\* and its best chunk doc
FindSourceForClause(s, doc) ==
    IF s = "hit"
    THEN [raised |-> FALSE, value |-> SourceInfo(doc)]
    ELSE [raised |-> FALSE, value |-> JNull]

\* a classifier that forgets reason_text.lower()
ClassifySeverityCaseSensitive(reason_text) ==
    LET reason == reason_text
    IN  IF Contains(reason, <<"riba">>) THEN "high"
        ELSE IF Contains(reason, <<"gharar">>) \/ Contains(reason, <<"uncertainty">>)
        THEN "medium"
        ELSE "low"

\* classify_severity, after reason = reason_text.lower()
ClassifySeverity(reason_text) ==
    LET reason == Lower(reason_text)
    IN  IF Contains(reason, <<"riba">>) THEN "high"
        ELSE IF Contains(reason, <<"gharar">>) \/ Contains(reason, <<"uncertainty">>)
        THEN "medium"
        ELSE IF Contains(reason, <<"minor", "issue">>) \/ Contains(reason, <<"technicality">>)
        THEN "low"
        ELSE "low"

\* a classifier that forgets reason_text.lower()
ClassifyViolationCategoryCaseSensitive(reason_text) ==
    LET reason == reason_text
    IN  IF Contains(reason, <<"riba">>) THEN <<"riba">>
        ELSE IF Contains(reason, <<"gharar">>) \/ Contains(reason, <<"uncertainty">>)
        THEN <<"gharar">>
        ELSE <<"other">>

\* classify_violation_category
ClassifyViolationCategory(reason_text) ==
    LET reason == Lower(reason_text)
    IN  IF Contains(reason, <<"riba">>) THEN <<"riba">>
        ELSE IF Contains(reason, <<"gharar">>) \/ Contains(reason, <<"uncertainty">>)
        THEN <<"gharar">>
        ELSE IF Contains(reason, <<"haram", "activity">>)
                \/ Contains(reason, <<"prohibited", "sector">>)
        THEN <<"haram", "activities">>
        ELSE IF Contains(reason, <<"maysir">>) THEN <<"maysir">>
        ELSE <<"other">>

\* for clause in suspicious_terms: the items the loop visits
IsIterable(x) == x.t \in {"list", "str"}

Items(x) == IF x.t = "list" THEN x.v ELSE [i \in 1..Len(x.v) |-> <<x.v[i]>>]

\* audit_product_description: the dict it returns
NotCompliant(r) == ~Truthy(r.v["compliant"])

RECURSIVE AllCompliant(_)
AllCompliant(rs) ==
    IF rs = << >> THEN TRUE ELSE Truthy(Head(rs).v["compliant"]) /\ AllCompliant(Tail(rs))

\* a verdict that lists every assessment as a violation
BuildVerdictListsAll(sd, rs) ==
    [product_summary |-> sd,
     suspicious_clauses |-> rs,
     violations |-> rs,
     overall_compliance |-> AllCompliant(rs)]

\* lines 234-242
BuildVerdict(sd, rs) ==
    [product_summary |-> sd,
     suspicious_clauses |-> rs,
     violations |-> SelectSeq(rs, NotCompliant),
     overall_compliance |-> AllCompliant(rs)]

NoVerdict == BuildVerdict(EmptyDict, << >>)

(***************************************************************************)
(* safe_invoke: tenacity's retry policy around llm.invoke.                 *)
(***************************************************************************)
\* a policy that stops one attempt late
SafeInvokeStatusOneMore(log) ==
    LET last == log[Len(log)]
    IN  IF last = "ok" THEN "returned"
        ELSE IF last = "ValueError" /\ Len(log) <= MaxAttempts THEN "active"
        ELSE "raised"

\* a policy that retries every exception
SafeInvokeStatusRetryAll(log) ==
    LET last == log[Len(log)]
    IN  IF last = "ok" THEN "returned"
        ELSE IF Len(log) < MaxAttempts THEN "active"
        ELSE "raised"

\* the state of a safe_invoke call after the invocations of log
SafeInvokeStatus(log) ==
    LET last == log[Len(log)]
    IN  IF last = "ok" THEN "returned"
        ELSE IF last = "ValueError" /\ Len(log) < MaxAttempts THEN "active"
        ELSE "raised"

(***************************************************************************)
(* What the environment can do: the requests, the answers of the           *)
(* reasoning service and of the vector index.                              *)
(***************************************************************************)
Requests == {"missing", "empty", "text"}

ServiceOutcomes == {"ok", "ValueError", "OtherError"}

TermList(n) ==
    [i \in 1..n |-> IF i % 2 = 1 THEN <<"late", "penalty">> ELSE <<"conventional", "bonds">>]

ExtractionDicts ==
    {Obj([suspicious_terms |-> JList(TermList(n))]) : n \in 0..MaxTerms}
        \cup {Obj([suspicious_terms |-> JNull]),
              Obj([product_type |-> JStr(<<"murabaha">>)])}

FullDict == Obj([suspicious_terms |-> JList(TermList(MaxTerms))])

ExtractionTexts ==
    {<<Json(d)>> : d \in ExtractionDicts}
        \cup {<<Prose, Fence, Json(FullDict), Fence, Prose>>,
              <<Prose, PyObj(FullDict)>>,
              <<Fence, Json(JList(TermList(1))), Fence>>,
              <<Prose>>,
              <<BadBrace>>}

OkReason == <<"no", "issue", "found">>

RibaReason == <<"This", "violates", "Riba", "prohibition">>

MinorReason == <<"minor", "technicality">>

GhararReason == <<"excessive", "Uncertainty", "present">>

Assessment(c, compliant, reason) ==
    Obj([clause |-> JStr(c), compliant |-> compliant, reason |-> JStr(reason)])

\* the texts the service may answer a compliance check of clause c with
ComplianceTexts(c) ==
    {<<Prose>>,
     <<Fence, Json(Assessment(c, JBool(TRUE), OkReason)), Fence>>,
     <<Json(Assessment(c, JBool(TRUE), OkReason))>>,
     <<Json(Assessment(c, JBool(FALSE), RibaReason))>>,
     <<Json(Assessment(c, JBool(FALSE), MinorReason))>>,
     <<Json(Assessment(c, JBool(FALSE), GhararReason))>>,
     <<Json(Assessment(<<"a", "reworded", "clause">>, JBool(TRUE), OkReason))>>,
     <<Json(Assessment(c, JStr(<<"false">>), RibaReason))>>,
     <<Json(DictSet(Assessment(c, JBool(TRUE), OkReason), "severity", JStr(<<"high">>)))>>,
     <<Json(Obj([clause |-> JStr(c), compliant |-> JBool(FALSE)]))>>,
     <<Json(Obj([clause |-> JStr(c), reason |-> JStr(RibaReason)]))>>,
     <<Json(Obj([clause |-> JStr(c), compliant |-> JBool(FALSE), reason |-> JNull]))>>,
     <<Json(JList(<<c>>))>>}

SuggestionText == <<"replace", "the", "penalty", "by", "a", "donation", "to", "charity">>

Docs ==
    {[source |-> "default_principles.pdf",
      page_content |-> <<"Riba", "(interest)", "is", "prohibited">>]}

SearchOutcomes == {"hit", "miss", "error"}

(***************************************************************************)
(* The HTTP handlers of app.py and the steps of the core call.             *)
(***************************************************************************)
\* _safe_parse_json is not being run alone
ParserIdle ==
    /\ p_pc = "idle"
    /\ p_text = << >>
    /\ p_value = << >>
    /\ p_parsed = EmptyDict

NoDoc == [source |-> "none", page_content |-> << >>]

\* find_source_for_clause is not being run alone
SourceIdle ==
    /\ s_pc = "idle"
    /\ s_outcome = "none"
    /\ s_doc = NoDoc
    /\ s_info = JNull
    /\ s_before = EmptyDict
    /\ s_result = EmptyDict

\* the classifiers are not being run alone
ClassifyIdle ==
    /\ c_pc = "idle"
    /\ c_reason = << >>
    /\ c_severity = "none"
    /\ c_category = << >>

\* _create_vector_db is not being run alone
IngestIdle ==
    /\ i_pc = "idle"
    /\ i_folder = << >>
    /\ i_pdf_files = << >>
    /\ i_next = 0
    /\ i_all_docs = << >>
    /\ i_chunks = << >>
    /\ i_store = << >>
    /\ i_builds = 0

Threads == 1..MaxThreads

IdleThread == [op |-> "none", pc |-> "idle", n |-> 0]

\* the start of the service is not being followed alone
ServiceIdle ==
    /\ v_phase = "down"
    /\ v_builds = 0
    /\ v_threads = [t \in Threads |-> IdleThread]

\* search_standards is not being run alone
SearchIdle ==
    /\ q_pc = "idle"
    /\ q_key = FALSE
    /\ q_max = 0
    /\ q_query = {}
    /\ q_endpoint = 0
    /\ q_attempts = 0
    /\ q_log = << >>
    /\ q_results = << >>

NoCalculation ==
    [total_zakatable_assets |-> 0, total_deductible_liabilities |-> 0, zakat_base |-> 0,
     exceeds_nisab |-> FALSE, zakat_amount |-> 0]

\* calculate_zakat_amount is not being run alone
ZakatIdle ==
    /\ z_pc = "idle"
    /\ z_sheet = << >>
    /\ z_calc = NoCalculation

HarnessIdle ==
    /\ ParserIdle
    /\ SourceIdle
    /\ ClassifyIdle
    /\ IngestIdle
    /\ ServiceIdle
    /\ SearchIdle
    /\ ZakatIdle

\* no request is being served
AuditIdle ==
    /\ pc = "idle"
    /\ op = "none"
    /\ http_status = 0
    /\ http_body = "none"
    /\ verdict = NoVerdict
    /\ outcome = "none"
    /\ structured_data = EmptyDict
    /\ suspicious_terms = JList(<< >>)
    /\ idx = 0
    /\ result = EmptyDict
    /\ audit_results = << >>
    /\ si_log = << >>
    /\ si_status = "idle"
    /\ last_response = << >>
    /\ failed_at = "none"
    /\ extract_invocations = 0
    /\ request = "none"
    /\ clause = << >>
    /\ waited = 0

Init == AuditIdle /\ HarnessIdle

\* status of the answers of the handlers
BadRequest == 400

ServerError == 500

Success == 200

\* a handler that answers an exception with a success status
HandlerErrorStatusSuccess == Success

\* the handler's answer when the core call raised: except Exception -> 500
HandlerErrorStatus == ServerError

HandlerErrorBody == "error"

\* the core call raises at `step`; the handler's except clause answers
Raise(step) ==
    /\ outcome' = "raised"
    /\ failed_at' = step
    /\ http_status' = HandlerErrorStatus
    /\ http_body' = HandlerErrorBody
    /\ pc' = "done"

\* audit_product_description returns; audit_product answers jsonify(result)
ReturnVerdict(sd, rs) ==
    /\ verdict' = BuildVerdict(sd, rs)
    /\ outcome' = "returned"
    /\ http_status' = Success
    /\ http_body' = "verdict"
    /\ pc' = "done"

\* POST /api/audit
ApiAudit(req) ==
    /\ pc = "idle"
    /\ UNCHANGED harnessVars
    /\ UNCHANGED waited
    /\ op' = "audit"
    /\ request' = req
    /\ IF req = "missing"
       THEN /\ http_status' = BadRequest
            /\ http_body' = "error"
            /\ pc' = "done"
            /\ outcome' = outcome
       ELSE /\ pc' = "extract"
            /\ outcome' = "running"
            /\ UNCHANGED <<http_status, http_body>>
    /\ UNCHANGED <<verdict, structured_data, suspicious_terms, idx, result,
                   audit_results, si_log, si_status, last_response, failed_at,
                   extract_invocations, clause>>

\* POST /api/extract
ApiExtract(req) ==
    /\ pc = "idle"
    /\ UNCHANGED harnessVars
    /\ UNCHANGED waited
    /\ op' = "extract"
    /\ request' = req
    /\ IF req = "missing"
       THEN /\ http_status' = BadRequest
            /\ http_body' = "error"
            /\ pc' = "done"
            /\ outcome' = outcome
       ELSE /\ pc' = "extract"
            /\ outcome' = "running"
            /\ UNCHANGED <<http_status, http_body>>
    /\ UNCHANGED <<verdict, structured_data, suspicious_terms, idx, result,
                   audit_results, si_log, si_status, last_response, failed_at,
                   extract_invocations, clause>>

\* POST /api/check-clause
ApiCheckClause(req) ==
    /\ pc = "idle"
    /\ UNCHANGED harnessVars
    /\ UNCHANGED waited
    /\ op' = "check_clause"
    /\ request' = req
    /\ IF req = "missing"
       THEN /\ http_status' = BadRequest
            /\ http_body' = "error"
            /\ pc' = "done"
            /\ UNCHANGED <<outcome, clause, si_status>>
       ELSE /\ pc' = "check"
            /\ outcome' = "running"
            /\ clause' = IF req = "empty" THEN << >> ELSE <<"late", "penalty">>
            /\ si_status' = "active"
            /\ UNCHANGED <<http_status, http_body>>
    /\ UNCHANGED <<verdict, structured_data, suspicious_terms, idx, result,
                   audit_results, si_log, last_response, failed_at,
                   extract_invocations>>

\* extract_structured_data; for /api/extract the answer, for the audit the head
\* of the for loop
ExtractInvoke(o, text) ==
    /\ pc = "extract"
    /\ UNCHANGED harnessVars
    /\ UNCHANGED waited
    /\ extract_invocations' = extract_invocations + 1
    /\ UNCHANGED <<op, request, result, audit_results, si_log, last_response>>
    /\ IF o # "ok"
       THEN /\ Raise(IF o = "ValueError" THEN "extract_transient" ELSE "extract_terminal")
            /\ UNCHANGED <<verdict, structured_data, suspicious_terms, idx, si_status, clause>>
       ELSE IF ExtractRaises(text)
       THEN /\ Raise("extract_merge")
            /\ UNCHANGED <<verdict, structured_data, suspicious_terms, idx, si_status, clause>>
       ELSE IF op = "extract"
       THEN /\ structured_data' = ExtractStructuredData(text)
            /\ outcome' = "returned"
            /\ http_status' = Success
            /\ http_body' = "product"
            /\ pc' = "done"
            /\ UNCHANGED <<verdict, suspicious_terms, failed_at, idx, si_status, clause>>
       ELSE LET sd == ExtractStructuredData(text)
                terms == sd.v["suspicious_terms"]
            IN  /\ structured_data' = sd
                /\ suspicious_terms' = terms
                /\ IF ~IsIterable(terms)
                   THEN /\ Raise("loop")
                        /\ UNCHANGED <<verdict, idx, si_status, clause>>
                   ELSE IF Items(terms) = << >>
                   THEN /\ ReturnVerdict(sd, audit_results)
                        /\ UNCHANGED <<failed_at, idx, si_status, clause>>
                   ELSE /\ idx' = 1
                        /\ clause' = Items(terms)[1]
                        /\ pc' = "check"
                        /\ si_status' = "active"
                        /\ UNCHANGED <<verdict, outcome, failed_at, http_status, http_body>>

\* check_clause_compliance: one invocation of the service by safe_invoke, and
\* what follows its return (json.loads; for /api/check-clause, the answer)
ComplianceInvoke(o, text) ==
    /\ pc = "check"
    /\ UNCHANGED harnessVars
    /\ waited' = 0
    /\ si_log' = Append(si_log, o)
    /\ si_status' = SafeInvokeStatus(si_log')
    /\ UNCHANGED <<op, request, verdict, structured_data, suspicious_terms, idx,
                   audit_results, extract_invocations, clause>>
    /\ CASE si_status' = "active" ->
                UNCHANGED <<pc, outcome, failed_at, http_status, http_body, result,
                            last_response>>
         [] si_status' = "raised" ->
                /\ Raise("check_call")
                /\ UNCHANGED <<result, last_response>>
         [] si_status' = "returned" ->
                /\ last_response' = text
                /\ result' = CheckClauseCompliance(clause, text)
                /\ failed_at' = failed_at
                /\ IF op = "check_clause"
                   THEN /\ outcome' = "returned"
                        /\ http_status' = Success
                        /\ http_body' = "assessment"
                        /\ pc' = "done"
                   ELSE /\ pc' = "source"
                        /\ UNCHANGED <<outcome, http_status, http_body>>

\* the reason a non-compliant result can be classified by: a str under "reason"
ReasonIsText(r) == Has(r, "reason") /\ r.v["reason"].t = "str"

\* result["severity"], result["category"] of a non-compliant result
Classified(r) ==
    DictSet(DictSet(r, "severity", JStr(<<ClassifySeverity(r.v["reason"].v)>>)),
            "category", JStr(ClassifyViolationCategory(r.v["reason"].v)))

\* an update that also writes the excerpt over the reason
UpdateOverReason(r, source_info) ==
    IF Truthy(source_info)
    THEN DictSet(DictMerge(r, source_info), "reason", source_info.v["source_text"])
    ELSE r

\* if source_info: result.update(source_info)
Update(r, source_info) == IF Truthy(source_info) THEN DictMerge(r, source_info) ELSE r

Attributed(r, s, doc) == Update(r, FindSourceForClause(s, doc).value)

\* a test that sends every clause to classification and remediation
FlaggedAlways(r) == TRUE

\* if not result["compliant"]:
Flagged(r) == ~Truthy(r.v["compliant"])

\* the loop body between the compliance check and the remediation request:
\* find_source_for_clause, result.update, the test of result["compliant"],
\* classify_severity and classify_violation_category
FindSource(s, doc) ==
    /\ pc = "source"
    /\ UNCHANGED harnessVars
    /\ UNCHANGED waited
    /\ UNCHANGED <<op, request, verdict, structured_data, suspicious_terms, idx,
                   extract_invocations, clause, last_response>>
    /\ IF ~IsDict(result) \/ ~Has(result, "compliant")
       THEN /\ Raise("malformed")
            /\ UNCHANGED <<result, audit_results, si_log, si_status>>
       ELSE LET r == Attributed(result, s, doc)
            IN  IF ~Flagged(r)
                THEN /\ result' = r
                     /\ audit_results' = Append(audit_results, r)
                     /\ pc' = "sleep"
                     /\ UNCHANGED <<outcome, failed_at, http_status, http_body,
                                    si_log, si_status>>
                ELSE IF ~ReasonIsText(r)
                THEN /\ Raise("malformed")
                     /\ result' = r
                     /\ UNCHANGED <<audit_results, si_log, si_status>>
                ELSE /\ result' = Classified(r)
                     /\ pc' = "suggest"
                     /\ si_log' = << >>
                     /\ si_status' = "active"
                     /\ UNCHANGED <<outcome, failed_at, http_status, http_body,
                                    audit_results>>

\* suggest_improvement: one invocation of the service by safe_invoke, and on
\* its return result["suggested_fix"] and audit_results.append(result)
SuggestInvoke(o) ==
    /\ pc = "suggest"
    /\ UNCHANGED harnessVars
    /\ UNCHANGED waited
    /\ si_log' = Append(si_log, o)
    /\ si_status' = SafeInvokeStatus(si_log')
    /\ UNCHANGED <<op, request, verdict, structured_data, suspicious_terms, idx,
                   extract_invocations, clause, last_response>>
    /\ CASE si_status' = "active" ->
                UNCHANGED <<pc, outcome, failed_at, http_status, http_body, result,
                            audit_results>>
         [] si_status' = "raised" ->
                /\ Raise("suggest_call")
                /\ UNCHANGED <<result, audit_results>>
         [] si_status' = "returned" ->
                /\ result' = DictSet(result, "suggested_fix", JStr(SuggestionText))
                /\ audit_results' = Append(audit_results, result')
                /\ pc' = "sleep"
                /\ UNCHANGED <<outcome, failed_at, http_status, http_body>>

\* a loop that sleeps only after a non-compliant clause
SleptWhenFlagged(r) == IF Flagged(r) THEN SleepTenths ELSE 0

\* time.sleep(1.1) at the end of the iteration that produced r
Slept(r) == SleepTenths

\* time.sleep(1.1), then the next clause or the aggregation and the return
Pace ==
    /\ pc = "sleep"
    /\ UNCHANGED harnessVars
    /\ waited' = waited + Slept(result)
    /\ UNCHANGED <<op, request, structured_data, suspicious_terms, result,
                   audit_results, extract_invocations, last_response, failed_at>>
    /\ IF idx < Len(Items(suspicious_terms))
       THEN /\ idx' = idx + 1
            /\ clause' = Items(suspicious_terms)[idx + 1]
            /\ pc' = "check"
            /\ si_log' = << >>
            /\ si_status' = "active"
            /\ UNCHANGED <<verdict, outcome, http_status, http_body>>
       ELSE /\ ReturnVerdict(structured_data, audit_results)
            /\ UNCHANGED <<idx, clause, si_log, si_status>>

\* the answer is sent; the service waits for the next request
NextRequest ==
    /\ pc = "done"
    /\ UNCHANGED harnessVars
    /\ waited' = 0
    /\ pc' = "idle"
    /\ op' = "none"
    /\ http_status' = 0
    /\ http_body' = "none"
    /\ verdict' = NoVerdict
    /\ outcome' = "none"
    /\ structured_data' = EmptyDict
    /\ suspicious_terms' = JList(<< >>)
    /\ idx' = 0
    /\ result' = EmptyDict
    /\ audit_results' = << >>
    /\ si_log' = << >>
    /\ si_status' = "idle"
    /\ last_response' = << >>
    /\ failed_at' = "none"
    /\ extract_invocations' = 0
    /\ request' = "none"
    /\ clause' = << >>

\* the service answers the compliance check of the current clause
ComplianceStep ==
    \E o \in ServiceOutcomes, text \in ComplianceTexts(clause) : ComplianceInvoke(o, text)

Next ==
    \/ \E req \in Requests : ApiAudit(req)
    \/ \E req \in Requests : ApiExtract(req)
    \/ \E req \in Requests : ApiCheckClause(req)
    \/ \E o \in ServiceOutcomes, text \in ExtractionTexts : ExtractInvoke(o, text)
    \/ ComplianceStep
    \/ \E s \in SearchOutcomes, doc \in Docs : FindSource(s, doc)
    \/ \E o \in ServiceOutcomes : SuggestInvoke(o)
    \/ Pace
    \/ NextRequest

Spec == Init /\ [][Next]_vars

(***************************************************************************)
(* _safe_parse_json run alone on a text.                                   *)
(***************************************************************************)
ParserValues ==
    {Obj([product_type |-> JStr(<<"murabaha">>)]),
     JList(<< <<"late", "penalty">> >>),
     JStr(<<"murabaha">>),
     JBool(TRUE),
     JNull}

TextTokens ==
    {Prose, Fence, BadBrace, ObjOpen, ObjClose,
     PyObj(Obj([product_type |-> JStr(<<"murabaha">>)]))}
        \cup {Json(v) : v \in ParserValues}

RECURSIVE TextsOfLen(_)
TextsOfLen(n) ==
    IF n = 0 THEN {<< >>}
    ELSE {Append(t, tok) : t \in TextsOfLen(n - 1), tok \in TextTokens}

Texts == UNION {TextsOfLen(n) : n \in 0..MaxTextLen}

\* values whose serialization is parsed back
RoundTripValues ==
    ParserValues
        \cup {Obj([note |-> JStr(ws)]) :
                ws \in {<<"text">>, <<"fence", "text", "fence">>, <<"fence", "true", "fence">>}}

InitParser ==
    /\ AuditIdle
    /\ ZakatIdle
    /\ SearchIdle
    /\ ServiceIdle
    /\ SourceIdle
    /\ ClassifyIdle
    /\ IngestIdle
    /\ p_pc = "called"
    /\ p_parsed = EmptyDict
    /\ \/ p_text \in Texts /\ p_value = << >>
       \/ \E v \in RoundTripValues : p_text = Serialize(v) /\ p_value = <<v>>

\* _safe_parse_json(p_text) returns
ParseReturn ==
    /\ p_pc = "called"
    /\ p_pc' = "returned"
    /\ p_parsed' = SafeParseJson(p_text)
    /\ UNCHANGED <<p_text, p_value, auditVars, sourceVars, classifyVars, ingestVars,
                   serviceVars, searchVars, zakatVars>>

NextParser == ParseReturn

SpecParser == InitParser /\ [][NextParser]_vars

(***************************************************************************)
(* find_source_for_clause run alone, with the attribution step of the loop. *)
(***************************************************************************)
Chars == <<"a", "b", "c", "d", "e", "f", "g">>

\* a chunk text of n characters
Content(n) == [i \in 1..n |-> Chars[(i % 7) + 1]]

ContentLengths == {1, ExcerptLen - 1, ExcerptLen, ExcerptLen + 1, ChunkSize}

\* chunks of the index: of a loaded document or of the seed statements
IndexedDocs ==
    {[source |-> src, page_content |-> Content(n)] :
        src \in {"default_principles.pdf", "standard.pdf"}, n \in ContentLengths}

\* assessments check_clause_compliance hands to the attribution step
Assessments ==
    {Assessment(<<"late", "penalty">>, JBool(TRUE), OkReason),
     Assessment(<<"late", "penalty">>, JBool(FALSE), RibaReason),
     Assessment(<<"late", "penalty">>, JBool(FALSE), <<"Failed", "to", "parse">>),
     DictSet(Assessment(<<"late", "penalty">>, JBool(FALSE), RibaReason),
             "source_doc", JStr(<<"AAOIFI">>))}

InitSource ==
    /\ AuditIdle
    /\ ZakatIdle
    /\ SearchIdle
    /\ ServiceIdle
    /\ ParserIdle
    /\ ClassifyIdle
    /\ IngestIdle
    /\ s_pc = "called"
    /\ s_outcome \in SearchOutcomes
    /\ s_doc \in IndexedDocs
    /\ s_info = JNull
    /\ s_before \in Assessments
    /\ s_result = s_before

\* source_info = self.find_source_for_clause(clause)
SourceReturn ==
    /\ s_pc = "called"
    /\ LET r == FindSourceForClause(s_outcome, s_doc)
       IN  /\ s_pc' = IF r.raised THEN "raised" ELSE "returned"
           /\ s_info' = r.value
    /\ UNCHANGED <<s_outcome, s_doc, s_before, s_result, auditVars, parserVars, classifyVars, ingestVars,
                   serviceVars, searchVars, zakatVars>>

\* if source_info: result.update(source_info)
SourceAttach ==
    /\ s_pc = "returned"
    /\ s_pc' = "attached"
    /\ s_result' = Update(s_result, s_info)
    /\ UNCHANGED <<s_outcome, s_doc, s_info, s_before, auditVars, parserVars, classifyVars, ingestVars,
                   serviceVars, searchVars, zakatVars>>

NextSource == SourceReturn \/ SourceAttach

SpecSource == InitSource /\ [][NextSource]_vars

(***************************************************************************)
(* classify_severity and classify_violation_category run alone.            *)
(***************************************************************************)
ReasonWords ==
    {"riba", "Riba", "tribal", "gharar", "Uncertainty", "haram", "non-haram",
     "activity", "activity.", "Prohibited", "sector", "maysir", "violates"}

RECURSIVE ReasonsOfLen(_)
ReasonsOfLen(n) ==
    IF n = 0 THEN {<< >>}
    ELSE {Append(r, w) : r \in ReasonsOfLen(n - 1), w \in ReasonWords}

ReasonTexts ==
    UNION {ReasonsOfLen(n) : n \in 0..MaxReasonLen} \cup {RibaReason, MinorReason, OkReason}

InitClassify ==
    /\ AuditIdle
    /\ ZakatIdle
    /\ SearchIdle
    /\ ServiceIdle
    /\ ParserIdle
    /\ SourceIdle
    /\ IngestIdle
    /\ c_pc = "called"
    /\ c_reason \in ReasonTexts
    /\ c_severity = "none"
    /\ c_category = << >>

\* result["severity"] = self.classify_severity(result["reason"])
SeverityReturn ==
    /\ c_pc = "called"
    /\ c_pc' = "severity"
    /\ c_severity' = ClassifySeverity(c_reason)
    /\ UNCHANGED <<c_reason, c_category, auditVars, parserVars, sourceVars, ingestVars,
                   serviceVars, searchVars, zakatVars>>

\* result["category"] = self.classify_violation_category(result["reason"])
CategoryReturn ==
    /\ c_pc = "severity"
    /\ c_pc' = "done"
    /\ c_category' = ClassifyViolationCategory(c_reason)
    /\ UNCHANGED <<c_reason, c_severity, auditVars, parserVars, sourceVars, ingestVars,
                   serviceVars, searchVars, zakatVars>>

NextClassify == SeverityReturn \/ CategoryReturn

SpecClassify == InitClassify /\ [][NextClassify]_vars

(***************************************************************************)
(* _create_vector_db run alone, up to the chunks it hands to the index.    *)
(* A page is known by the number of characters of its text.                *)
(***************************************************************************)
\* what PyPDFLoader(file).load() gives for a file that loads: its pages
PageSets == {<< >>, <<0>>, <<500>>, <<0, 500>>, <<500, 2000>>}

FolderFiles ==
    {[name |-> n, pdf |-> TRUE, loads |-> TRUE, pages |-> ps] :
        n \in {"a.pdf", "b.pdf"}, ps \in PageSets}
        \cup {[name |-> n, pdf |-> TRUE, loads |-> FALSE, pages |-> << >>] :
                n \in {"a.pdf", "b.pdf"}}
        \cup {[name |-> "chroma_db", pdf |-> FALSE, loads |-> FALSE, pages |-> << >>]}

RECURSIVE FoldersOfLen(_)
FoldersOfLen(n) ==
    IF n = 0 THEN {<< >>}
    ELSE {Append(fs, f) : fs \in FoldersOfLen(n - 1), f \in FolderFiles}

\* os.listdir(pdf_folder): files of different names, in any order
Folders ==
    {fs \in UNION {FoldersOfLen(n) : n \in 0..MaxFiles} :
        \A i, j \in 1..Len(fs) : i # j => fs[i].name # fs[j].name}

\* [... for f in os.listdir(self.pdf_folder) if f.endswith('.pdf')]
RECURSIVE PdfFiles(_)
PdfFiles(fs) ==
    IF fs = << >> THEN << >>
    ELSE (IF fs[1].pdf THEN <<fs[1]>> ELSE << >>) \o PdfFiles(Tail(fs))

\* a load whose pages stay in all_docs although it failed
LoadedDespiteFailure(file) ==
    [k \in 1..Len(file.pages) |-> [source |-> file.name, len |-> file.pages[k]]]
        \o (IF file.loads THEN << >> ELSE <<[source |-> file.name, len |-> 500]>>)

\* the body of the for loop: what one file adds to all_docs
Loaded(file) ==
    IF file.loads
    THEN [k \in 1..Len(file.pages) |-> [source |-> file.name, len |-> file.pages[k]]]
    ELSE << >>

SeedLens == <<123, 110, 118, 125, 120>>

\* the minimal default document set
SeedDocs == [k \in 1..5 |-> [source |-> "default_principles.pdf", len |-> SeedLens[k]]]

\* RecursiveCharacterTextSplitter.split_text on a text of n characters: the
\* lengths of its chunks, windows of chunk_size that overlap by chunk_overlap;
\* an empty text gives no chunk
RECURSIVE ChunkLens(_)
ChunkLens(n) ==
    IF n = 0 THEN << >>
    ELSE IF n <= ChunkSize THEN <<n>>
    ELSE <<ChunkSize>> \o ChunkLens(n - (ChunkSize - ChunkOverlap))

\* splitter.split_documents(all_docs): each chunk keeps its document's metadata
RECURSIVE SplitDocuments(_)
SplitDocuments(docs) ==
    IF docs = << >> THEN << >>
    ELSE LET lens == ChunkLens(docs[1].len)
         IN  [k \in 1..Len(lens) |-> [source |-> docs[1].source, len |-> lens[k]]]
                 \o SplitDocuments(Tail(docs))

InitIngest ==
    /\ AuditIdle
    /\ ZakatIdle
    /\ SearchIdle
    /\ ServiceIdle
    /\ ParserIdle
    /\ SourceIdle
    /\ ClassifyIdle
    /\ i_pc = "called"
    /\ i_folder \in Folders
    /\ i_pdf_files = << >>
    /\ i_next = 0
    /\ i_all_docs = << >>
    /\ i_chunks = << >>
    /\ i_store = << >>
    /\ i_builds = 0

\* lines 41-42
ListFolder ==
    /\ i_pc = "called"
    /\ i_pc' = "loading"
    /\ i_pdf_files' = PdfFiles(i_folder)
    /\ i_next' = 1
    /\ i_all_docs' = << >>
    /\ UNCHANGED <<i_folder, i_chunks, i_store, i_builds,
                   auditVars, parserVars, sourceVars, classifyVars, serviceVars,
                   searchVars, zakatVars>>

\* one pass of the for loop, lines 44-53
LoadFile ==
    /\ i_pc = "loading"
    /\ i_next <= Len(i_pdf_files)
    /\ i_all_docs' = i_all_docs \o Loaded(i_pdf_files[i_next])
    /\ i_next' = i_next + 1
    /\ UNCHANGED <<i_pc, i_folder, i_pdf_files, i_chunks, i_store, i_builds,
                   auditVars, parserVars, sourceVars, classifyVars, serviceVars,
                   searchVars, zakatVars>>

\* after the loop: the fallback of lines 56-81 and the split of lines 83-84
SplitAll ==
    /\ i_pc = "loading"
    /\ i_next > Len(i_pdf_files)
    /\ i_pc' = "split"
    /\ LET docs == IF i_all_docs = << >> THEN SeedDocs ELSE i_all_docs
       IN  /\ i_all_docs' = docs
           /\ i_chunks' = SplitDocuments(docs)
    /\ UNCHANGED <<i_folder, i_pdf_files, i_next, i_store, i_builds,
                   auditVars, parserVars, sourceVars, classifyVars, serviceVars,
                   searchVars, zakatVars>>

\* Chroma.from_documents(chunks, embedding_model, persist_directory=...): the
\* collection persisted at the location is opened, or created when there is
\* none, and every chunk is added to it under a new id
FromDocuments(store, chunks) == store \o chunks

\* lines 87-97; with no chunk to add the library may raise or return
BuildIndex ==
    /\ i_pc = "split"
    /\ i_store' = FromDocuments(i_store, i_chunks)
    /\ i_builds' = i_builds + 1
    /\ \/ i_pc' = "built"
       \/ i_chunks = << >> /\ i_pc' = "failed"
    /\ UNCHANGED <<i_folder, i_pdf_files, i_next, i_all_docs, i_chunks,
                   auditVars, parserVars, sourceVars, classifyVars, serviceVars,
                   searchVars, zakatVars>>

\* the service is started again on the same folder: __init__ runs
\* _create_vector_db once more
BuildAgain ==
    /\ i_pc = "built"
    /\ i_builds < MaxBuilds
    /\ i_pc' = "called"
    /\ i_pdf_files' = << >>
    /\ i_next' = 0
    /\ i_all_docs' = << >>
    /\ i_chunks' = << >>
    /\ UNCHANGED <<i_folder, i_store, i_builds,
                   auditVars, parserVars, sourceVars, classifyVars, serviceVars,
                   searchVars, zakatVars>>

NextIngest == ListFolder \/ LoadFile \/ SplitAll \/ BuildIndex \/ BuildAgain

SpecIngest == InitIngest /\ [][NextIngest]_vars

(***************************************************************************)
(* The start of the service and its request threads, as far as they build  *)
(* or query the index.                                                     *)
(***************************************************************************)
ServedOps == {"audit", "find_source", "check_clause", "extract"}

\* index queries one request makes at most: one per suspicious term of an
\* audit, one for /api/find-source, none otherwise
QueriesOf(o) ==
    CASE o = "audit" -> MaxTerms
      [] o = "find_source" -> 1
      [] OTHER -> 0

\* a service that accepts requests while the assistant is still being built
CanServeWhileBuilding(phase) == phase \in {"building", "serving"}

\* app.run is reached only after the module-level initialisation has returned
CanServe(phase) == phase = "serving"

InitService ==
    /\ AuditIdle
    /\ ZakatIdle
    /\ SearchIdle
    /\ ParserIdle
    /\ SourceIdle
    /\ ClassifyIdle
    /\ IngestIdle
    /\ v_phase = "importing"
    /\ v_builds = 0
    /\ v_threads = [t \in Threads |-> IdleThread]

\* assistant = ShariahAuditAssistant(pdf_folder=PDF_FOLDER): __init__ calls
\* _create_vector_db
StartBuild ==
    /\ v_phase = "importing"
    /\ v_phase' = "building"
    /\ v_builds' = v_builds + 1
    /\ UNCHANGED <<v_threads, auditVars, parserVars, sourceVars, classifyVars, ingestVars,
                   searchVars, zakatVars>>

\* the constructor returns, and app.run starts serving, or it raises and the
\* process exits
EndBuild(ok) ==
    /\ v_phase = "building"
    /\ v_phase' = IF ok THEN "serving" ELSE "exited"
    /\ UNCHANGED <<v_builds, v_threads, auditVars, parserVars, sourceVars, classifyVars,
                   ingestVars, searchVars, zakatVars>>

\* a request is taken by a thread and its handler calls the assistant
Receive(t, o) ==
    /\ CanServe(v_phase)
    /\ v_threads[t].pc = "idle"
    /\ v_threads' = [v_threads EXCEPT ![t] = [op |-> o, pc |-> "core", n |-> 0]]
    /\ UNCHANGED <<v_phase, v_builds, auditVars, parserVars, sourceVars, classifyVars,
                   ingestVars, searchVars, zakatVars>>

\* find_source_for_clause: self.vector_db.similarity_search starts
QueryStart(t) ==
    /\ v_threads[t].pc = "core"
    /\ v_threads[t].n < QueriesOf(v_threads[t].op)
    /\ v_threads' = [v_threads EXCEPT ![t].pc = "query", ![t].n = @ + 1]
    /\ UNCHANGED <<v_phase, v_builds, auditVars, parserVars, sourceVars, classifyVars,
                   ingestVars, searchVars, zakatVars>>

\* similarity_search returns or raises
QueryEnd(t) ==
    /\ v_threads[t].pc = "query"
    /\ v_threads' = [v_threads EXCEPT ![t].pc = "core"]
    /\ UNCHANGED <<v_phase, v_builds, auditVars, parserVars, sourceVars, classifyVars,
                   ingestVars, searchVars, zakatVars>>

\* the handler answers
Respond(t) ==
    /\ v_threads[t].pc = "core"
    /\ v_threads' = [v_threads EXCEPT ![t] = IdleThread]
    /\ UNCHANGED <<v_phase, v_builds, auditVars, parserVars, sourceVars, classifyVars,
                   ingestVars, searchVars, zakatVars>>

NextService ==
    \/ StartBuild
    \/ \E ok \in BOOLEAN : EndBuild(ok)
    \/ \E t \in Threads, o \in ServedOps : Receive(t, o)
    \/ \E t \in Threads : QueryStart(t)
    \/ \E t \in Threads : QueryEnd(t)
    \/ \E t \in Threads : Respond(t)

SpecService == InitService /\ [][NextService]_vars

(***************************************************************************)
(* ShariahSearchAgent.search_standards run alone.  A source answers with a *)
(* number of items or fails; a result is known by its source_type and rank. *)
(***************************************************************************)
\* what a queried service does: an answer of status 200 with a well-formed
\* body, or one of the failures
SourceKinds ==
    {"ok", "RequestException", "ConnectionError", "OtherError", "status", "malformed"}

\* the kinds that are an exception raised inside the try block: a non-200
\* status raises in _search_primary_service (line 87), a malformed body raises
\* in response.json() or in the processing of data
Exceptional(kind, src) ==
    \/ kind \in {"RequestException", "ConnectionError", "OtherError", "malformed"}
    \/ kind = "status" /\ src = "primary"

\* retry_if_exception_type((requests.RequestException, ConnectionError))
Retried(kind) == kind \in {"RequestException", "ConnectionError"}

\* the first n results of a source, n = min(count, max_results)
ResultsOf(type, count, max) ==
    [k \in 1..(IF count < max THEN count ELSE max) |-> [source_type |-> type, rank |-> k]]

\* shariah_concepts, in the order of the dict, with the results each holds
Concepts ==
    <<[kw |-> "riba", n |-> 2], [kw |-> "gharar", n |-> 1], [kw |-> "maysir", n |-> 1],
      [kw |-> "mudarabah", n |-> 1], [kw |-> "musharakah", n |-> 1],
      [kw |-> "murabaha", n |-> 1], [kw |-> "ijarah", n |-> 1], [kw |-> "sukuk", n |-> 1],
      [kw |-> "takaful", n |-> 1]>>

\* the for loop of _simulate_search_results from concept i on, with `found`
\* results collected so far: how many results are returned
RECURSIVE SimulatedCount(_, _, _, _)
SimulatedCount(query, max, i, found) ==
    IF i > Len(Concepts)
    THEN LET all == IF found = 0 THEN 2 ELSE found
         IN  IF all < max THEN all ELSE max
    ELSE IF Concepts[i].kw \in query
    THEN IF found + Concepts[i].n >= max
         THEN max
         ELSE SimulatedCount(query, max, i + 1, found + Concepts[i].n)
    ELSE SimulatedCount(query, max, i + 1, found)

\* _simulate_search_results
SimulateSearchResults(query, max) ==
    [k \in 1..SimulatedCount(query, max, 1, 0) |-> [source_type |-> "simulated", rank |-> k]]

\* a handler for network errors only
CaughtNetworkOnly(kind) == Retried(kind)

\* `except Exception` of lines 46 and 115
Caught(kind) == TRUE

Queries == {{}, {"riba"}, {"gharar", "sukuk"}, {"riba", "gharar", "maysir"}}

InitSearch ==
    /\ AuditIdle
    /\ ZakatIdle
    /\ ParserIdle
    /\ SourceIdle
    /\ ClassifyIdle
    /\ IngestIdle
    /\ ServiceIdle
    /\ q_pc = "called"
    /\ q_key \in BOOLEAN
    /\ q_max \in 0..MaxResults
    /\ q_query \in Queries
    /\ q_endpoint = 0
    /\ q_attempts = 0
    /\ q_log = << >>
    /\ q_results = << >>

searchInputs == <<q_key, q_max, q_query>>

otherThanSearch ==
    <<auditVars, parserVars, sourceVars, classifyVars, ingestVars, serviceVars, zakatVars>>

\* an exception of kind `kind` leaves search_standards: the decorator starts
\* another attempt, or gives up after SearchAttempts attempts
Escapes(kind) ==
    /\ q_pc' = IF Retried(kind) /\ q_attempts < SearchAttempts THEN "called" ELSE "raised"
    /\ UNCHANGED <<q_endpoint, q_results>>

\* one attempt starts: line 43
SearchCall ==
    /\ q_pc = "called"
    /\ q_attempts' = q_attempts + 1
    /\ q_pc' = IF q_key THEN "primary" ELSE "fallback"
    /\ q_endpoint' = IF q_key THEN 0 ELSE 1
    /\ UNCHANGED <<searchInputs, q_log, q_results, otherThanSearch>>

\* lines 44-47 with _search_primary_service
QueryPrimary(kind, items) ==
    /\ q_pc = "primary"
    /\ q_log' = Append(q_log, [src |-> "primary", kind |-> kind])
    /\ IF ~Exceptional(kind, "primary")
       THEN /\ q_results' = ResultsOf("search", items, q_max)
            /\ q_pc' = "returned"
            /\ UNCHANGED q_endpoint
       ELSE IF Caught(kind)
       THEN /\ q_pc' = "fallback"
            /\ q_endpoint' = 1
            /\ UNCHANGED q_results
       ELSE Escapes(kind)
    /\ UNCHANGED <<searchInputs, q_attempts, otherThanSearch>>

\* one pass of the for loop of _search_fallback, lines 94-117
QueryFallback(kind, items) ==
    /\ q_pc = "fallback"
    /\ q_log' = Append(q_log, [src |-> "fallback", kind |-> kind])
    /\ IF kind = "ok"
       THEN /\ q_results' = ResultsOf("specialized_database", items, q_max)
            /\ q_pc' = "returned"
            /\ UNCHANGED q_endpoint
       ELSE IF ~Exceptional(kind, "fallback") \/ Caught(kind)
       THEN /\ q_pc' = IF q_endpoint < NumFallbacks THEN "fallback" ELSE "simulate"
            /\ q_endpoint' = q_endpoint + 1
            /\ UNCHANGED q_results
       ELSE Escapes(kind)
    /\ UNCHANGED <<searchInputs, q_attempts, otherThanSearch>>

\* line 120
Simulate ==
    /\ q_pc = "simulate"
    /\ q_log' = Append(q_log, [src |-> "simulated", kind |-> "ok"])
    /\ q_results' = SimulateSearchResults(q_query, q_max)
    /\ q_pc' = "returned"
    /\ UNCHANGED <<searchInputs, q_endpoint, q_attempts, otherThanSearch>>

NextSearch ==
    \/ SearchCall
    \/ \E kind \in SourceKinds, items \in 0..MaxItems : QueryPrimary(kind, items)
    \/ \E kind \in SourceKinds, items \in 0..MaxItems : QueryFallback(kind, items)
    \/ Simulate

SpecSearch == InitSearch /\ [][NextSearch]_vars

(***************************************************************************)
(* ZakatCalculator.calculate_zakat_amount run alone.  Money is counted in  *)
(* hundredths of the currency unit, the zakat amount in thousandths of     *)
(* these, so that base * 0.025 is the integer base * 25.                   *)
(***************************************************************************)
\* self.nisab_value, in hundredths
NisabValue ==
    LET gold == NisabGold * GoldPerGram * 100
        silver == NisabSilver * SilverPerGramCents
    IN  IF gold > silver THEN gold ELSE silver

HasAny(account_lower, keywords) == \E kw \in keywords : Contains(account_lower, <<kw>>)

\* classify_accounts: the class an account name falls into, "none" if no
\* keyword matches
AccountClass(account) ==
    LET account_lower == Lower(account)
    IN  IF HasAny(account_lower,
                  {"cash", "bank", "receivable", "inventory", "investment", "gold", "silver"})
        THEN "zakatable_assets"
        ELSE IF HasAny(account_lower,
                       {"property", "equipment", "building", "intangible", "goodwill"})
        THEN "non_zakatable_assets"
        ELSE IF HasAny(account_lower, {"payable", "accrued", "tax"})
                \/ Contains(account_lower, <<"short", "term">>)
        THEN "deductible_liabilities"
        ELSE IF HasAny(account_lower, {"loan", "capital"})
                \/ Contains(account_lower, <<"long", "term">>)
        THEN "non_deductible_liabilities"
        ELSE "none"

\* the accounts of the balance sheets tried
Accounts ==
    <<<<"Cash">>, <<"Inventory">>, <<"equipment">>, <<"Accounts", "Payable">>,
      <<"Bank", "Loan">>>>

\* the values an account may have, in hundredths: 2950.00 + 3000.00 is the nisab
AccountValues == {0, 295000, 300000}

\* sum(classified[class].values()) over the accounts from position i on
RECURSIVE ClassTotal(_, _, _)
ClassTotal(sheet, class, i) ==
    IF i > Len(Accounts) THEN 0
    ELSE (IF AccountClass(Accounts[i]) = class THEN sheet[i] ELSE 0)
             + ClassTotal(sheet, class, i + 1)

\* calculate_zakat_base
CalculateZakatBase(sheet) ==
    LET assets == ClassTotal(sheet, "zakatable_assets", 1)
        liabilities == ClassTotal(sheet, "deductible_liabilities", 1)
    IN  [NoCalculation EXCEPT !.total_zakatable_assets = assets,
                              !.total_deductible_liabilities = liabilities,
                              !.zakat_base = assets - liabilities]

\* a threshold test that treats a base equal to the nisab as below it
NisabTestInclusive(calculation) ==
    IF calculation.zakat_base <= NisabValue
    THEN [calculation EXCEPT !.exceeds_nisab = FALSE, !.zakat_amount = 0]
    ELSE [calculation EXCEPT !.exceeds_nisab = TRUE,
                             !.zakat_amount = calculation.zakat_base * RatePerMille]

\* lines 117-125 of calculate_zakat_amount
NisabTest(calculation) ==
    IF calculation.zakat_base < NisabValue
    THEN [calculation EXCEPT !.exceeds_nisab = FALSE, !.zakat_amount = 0]
    ELSE [calculation EXCEPT !.exceeds_nisab = TRUE,
                             !.zakat_amount = calculation.zakat_base * RatePerMille]

otherThanZakat ==
    <<auditVars, parserVars, sourceVars, classifyVars, ingestVars, serviceVars, searchVars>>

InitZakat ==
    /\ AuditIdle
    /\ ParserIdle
    /\ SourceIdle
    /\ ClassifyIdle
    /\ IngestIdle
    /\ ServiceIdle
    /\ SearchIdle
    /\ z_pc = "called"
    /\ z_sheet \in [1..Len(Accounts) -> AccountValues]
    /\ z_calc = NoCalculation

\* calculation = self.calculate_zakat_base(financial_data)
ZakatBaseReturn ==
    /\ z_pc = "called"
    /\ z_pc' = "base"
    /\ z_calc' = CalculateZakatBase(z_sheet)
    /\ UNCHANGED <<z_sheet, otherThanZakat>>

\* the nisab test and the return
ZakatAmountReturn ==
    /\ z_pc = "base"
    /\ z_pc' = "done"
    /\ z_calc' = NisabTest(z_calc)
    /\ UNCHANGED <<z_sheet, otherThanZakat>>

NextZakat == ZakatBaseReturn \/ ZakatAmountReturn

SpecZakat == InitZakat /\ [][NextZakat]_vars

(***************************************************************************)
(* Properties.                                                             *)
(***************************************************************************)
VerdictReturned == op = "audit" /\ http_body = "verdict"

Entries == verdict.suspicious_clauses

ExtractedTerms == Items(verdict.product_summary.v["suspicious_terms"])

\* C1: in every returned verdict overall_compliance is true exactly when every
\* entry of suspicious_clauses has compliant = true; with zero suspicious
\* terms it is true and violations is empty.
C1_OverallIsConjunction ==
    VerdictReturned =>
        /\ verdict.overall_compliance
               <=> \A i \in 1..Len(Entries) : Entries[i].v["compliant"] = JBool(TRUE)
        /\ ExtractedTerms = << >> =>
               verdict.overall_compliance /\ verdict.violations = << >>

\* C2: in every returned verdict the clause text of each entry of
\* suspicious_clauses is one of the extracted suspicious_terms.
C2_NoFabricatedClauses ==
    VerdictReturned =>
        \A i \in 1..Len(Entries) :
            /\ Has(Entries[i], "clause")
            /\ \E j \in 1..Len(ExtractedTerms) :
                   Entries[i].v["clause"] = JStr(ExtractedTerms[j])

\* the compliance check has just returned to its caller
CheckReturned ==
    \/ pc = "source"
    \/ pc = "done" /\ op = "check_clause" /\ outcome = "returned"

\* C3: when the compliance response is not strict JSON, check_clause_compliance
\* returns the input clause with compliant = false and the reason
\* "Failed to parse compliance data".
C3_ParseFailureFailsClosed ==
    (CheckReturned /\ ~JsonOk(last_response)) =>
        result = Obj([clause |-> JStr(clause), compliant |-> JBool(FALSE),
                      reason |-> FailedToParse])

\* C3 witness: a response that holds a compliant assessment inside a fenced
\* block, which strict parsing rejects, has been answered fail-closed
C3_Witness ==
    /\ CheckReturned
    /\ Len(last_response) = 3
    /\ last_response[2].k = "json"
    /\ result.v["compliant"] = JBool(FALSE)

\* C4: once extraction has succeeded, none of a compliance response that does
\* not parse, an attribution miss or index error, a failing remediation call
\* aborts the audit: a verdict with one assessment per suspicious term is
\* returned.
C4_ClauseFailureNeverAborts ==
    (op = "audit" /\ pc = "done" /\ request # "missing"
        /\ failed_at \in {"none", "suggest_call"}) =>
        /\ VerdictReturned
        /\ Len(Entries) = Len(Items(suspicious_terms))

ExtractionCallFailed == failed_at \in {"extract_transient", "extract_terminal"}

\* C5: when the service fails during extraction the audit raises, returns no
\* partial result, and /api/audit answers a server error with an error body.
C5_ExtractionFailureIsExplicitError ==
    ExtractionCallFailed =>
        /\ outcome = "raised"
        /\ verdict = NoVerdict
        /\ http_status = 500
        /\ http_body = "error"

\* C5 witness: the extraction call failed and the request has been answered
C5_Witness == op = "audit" /\ ExtractionCallFailed /\ pc = "done" /\ http_status # 0

\* C6: a transient failure of the extraction call is retried, and extraction
\* fails only after 5 attempts.
C6_ExtractionRetried ==
    failed_at = "extract_transient" => extract_invocations = MaxAttempts

\* C7: one safe_invoke call invokes the service at most 5 times, never again
\* after a success, again only after a ValueError, and raises when all 5
\* attempts failed with ValueError.
C7_SafeInvokeBounded ==
    /\ Len(si_log) <= 5
    /\ \A j \in 1..(Len(si_log) - 1) : si_log[j] = "ValueError"
    /\ (si_log # << >> /\ si_log[Len(si_log)] = "ok") => si_status = "returned"
    /\ (Len(si_log) = 5 /\ si_log[5] = "ValueError") =>
           si_status = "raised" /\ outcome = "raised"

\* C7 witness: five transient failures in a row, and the call has raised
C7_Witness ==
    /\ Len(si_log) = 5
    /\ \A j \in 1..5 : si_log[j] = "ValueError"
    /\ si_status = "raised"

\* C8: a failure that is no ValueError ends the safe_invoke call at once: it
\* is the call's last invocation, whatever attempts remain, and the call
\* raises; as the first outcome it leaves exactly one invocation.
C8_TerminalFailureNotRetried ==
    \A j \in 1..Len(si_log) :
        si_log[j] = "OtherError" =>
            /\ j = Len(si_log)
            /\ si_status = "raised"
            /\ outcome = "raised"

\* C8 witness: a terminal failure on the second attempt, three attempts left
C8_Witness ==
    /\ si_log = <<"ValueError", "OtherError">>
    /\ si_status = "raised"

CarriesSeverityAndCategory(r) == Has(r, "severity") /\ Has(r, "category")

\* C9: every returned assessment with compliant = false, in a verdict or as
\* the answer of check_clause, carries a severity and a category.
C9_NonCompliantCarriesSeverity ==
    /\ VerdictReturned =>
           \A i \in 1..Len(Entries) :
               Entries[i].v["compliant"] = JBool(FALSE) =>
                   CarriesSeverityAndCategory(Entries[i])
    /\ (op = "check_clause" /\ http_body = "assessment" /\ Has(result, "compliant")) =>
           (result.v["compliant"] = JBool(FALSE) => CarriesSeverityAndCategory(result))

\* C10: in a returned verdict an assessment with compliant = true carries
\* none of severity, category, suggested_fix.
C10_ExtrasOnlyWhenNonCompliant ==
    VerdictReturned =>
        \A i \in 1..Len(Entries) :
            Entries[i].v["compliant"] = JBool(TRUE) =>
                DOMAIN Entries[i].v \cap {"severity", "category", "suggested_fix"} = {}

ParserReturned == p_pc = "returned"

\* C11: for every text _safe_parse_json returns a mapping, never a list,
\* string, number, boolean or null.
C11_ParserReturnsMapping == ParserReturned => IsDict(p_parsed)

\* no fenced block, no brace span and no repaired brace span of the text parses
NothingParses(text) ==
    /\ \A i \in 1..Len(FencedBodies(text)) : ~JsonOk(FencedBodies(text)[i])
    /\ \A i \in 1..Len(BraceSpans(text)) : ~JsonOk(BraceSpans(text)[i])
    /\ \A i \in 1..Len(BraceSpans(FixText(text))) : ~JsonOk(BraceSpans(FixText(text))[i])

\* C12: when no fenced block, no brace span and no repaired brace span of the
\* text parses as JSON, _safe_parse_json returns the empty mapping.
C12_UnparseableGivesEmptyMapping ==
    (ParserReturned /\ NothingParses(p_text)) => p_parsed = EmptyDict

\* C12 witness: a text with a fenced block and a brace span, none of which
\* parses, has been answered
C12_Witness ==
    /\ ParserReturned
    /\ NothingParses(p_text)
    /\ FencedBodies(p_text) # << >>
    /\ BraceSpans(p_text) # << >>

\* C13 as stated: for any JSON value v, _safe_parse_json(serialize(v)) = v.
C13_RoundTripAnyValue ==
    (ParserReturned /\ p_value # << >>) => p_parsed = p_value[1]

\* C13 amended: for any JSON object v whose serialization holds no fenced span
\* that is JSON on its own, _safe_parse_json(serialize(v)) = v.
C13_RoundTripObjects ==
    (ParserReturned /\ p_value # << >> /\ IsDict(p_value[1])
        /\ \A i \in 1..Len(FencedBodies(p_text)) : ~JsonOk(FencedBodies(p_text)[i])) =>
        p_parsed = p_value[1]

\* C13 witness: an object with fences inside a string has come back unchanged
C13_Witness ==
    /\ ParserReturned
    /\ p_value = <<Obj([note |-> JStr(<<"fence", "text", "fence">>)])>>
    /\ p_parsed = p_value[1]

ProductFields ==
    {"product_type", "main_parties", "contract_type", "key_clauses",
     "financial_terms", "suspicious_terms"}

ListFields == {"main_parties", "key_clauses", "financial_terms", "suspicious_terms"}

\* C14: whatever the extraction answer, the product extract_structured_data
\* returns has all six fields and each list-valued field is a list, never null.
C14_ExtractedProductWellFormed ==
    structured_data # EmptyDict =>
        /\ \A k \in ProductFields : Has(structured_data, k)
        /\ \A k \in ListFields : structured_data.v[k].t = "list"

\* C17: audit, extract and check_clause answer a request whose required text
\* is missing or empty with a client error and never invoke the assistant.
C17_EmptyOrMissingTextRejected ==
    request \in {"missing", "empty"} =>
        /\ outcome = "none"
        /\ extract_invocations = 0
        /\ si_log = << >>
        /\ pc = "done" => http_status = BadRequest

\* C20: an audit request makes each of its service calls (extraction,
\* compliance check, remediation) through the retrying gateway: a call takes
\* at most 5 invocations, and one that ends on a transient failure took all 5.
C20_AuditCallsBoundedByGateway ==
    (op = "audit" /\ pc = "done" /\ outcome \in {"returned", "raised"}) =>
        /\ extract_invocations \in 1..MaxAttempts
        /\ Len(si_log) <= MaxAttempts
        /\ failed_at = "extract_transient" => extract_invocations = MaxAttempts
        /\ (failed_at \in {"check_call", "suggest_call"}
              /\ si_log[Len(si_log)] = "ValueError") => Len(si_log) = MaxAttempts

SourceKeys == {"source_doc", "source_text"}

\* the excerpt e is the first characters of text, all of them or 300
IsExcerpt(e, text) ==
    /\ Len(e) <= 300
    /\ Len(e) <= Len(text)
    /\ \A i \in 1..Len(e) : e[i] = text[i]
    /\ Len(e) = 300 \/ Len(e) = Len(text)

\* C15: find_source_for_clause never raises; on a hit it returns the source
\* document and an excerpt of at most 300 characters of the best chunk, which
\* are attached to the assessment; on a miss or an index error it returns
\* nothing and the assessment is left as it was.
C15_SourceLookupNeverFails ==
    /\ s_pc # "raised"
    /\ s_pc \in {"returned", "attached"} =>
           IF s_outcome = "hit"
           THEN /\ IsDict(s_info)
                /\ DOMAIN s_info.v = SourceKeys
                /\ s_info.v["source_doc"] = JStr(<<s_doc.source>>)
                /\ s_info.v["source_text"].t = "str"
                /\ IsExcerpt(s_info.v["source_text"].v, s_doc.page_content)
           ELSE s_info = JNull
    /\ s_pc = "attached" =>
           IF s_outcome = "hit"
           THEN /\ DOMAIN s_result.v = DOMAIN s_before.v \cup SourceKeys
                /\ \A k \in SourceKeys : s_result.v[k] = s_info.v[k]
                /\ \A k \in DOMAIN s_before.v \ SourceKeys : s_result.v[k] = s_before.v[k]
           ELSE s_result = s_before

\* C15 witness: a hit on a chunk longer than 300 characters has been attached,
\* cut to 300
C15_Witness ==
    /\ s_pc = "attached"
    /\ s_outcome = "hit"
    /\ Len(s_doc.page_content) > 300
    /\ Len(s_result.v["source_text"].v) = 300

\* the reason text holds the keyword, whatever the case of its letters
Mentions(kw) == Contains(Lower(c_reason), kw)

MentionsGharar == Mentions(<<"gharar">>) \/ Mentions(<<"uncertainty">>)

MentionsHaram == Mentions(<<"haram", "activity">>) \/ Mentions(<<"prohibited", "sector">>)

\* C16: for every reason text, severity is high if it contains riba, else
\* medium if it contains gharar or uncertainty, else low; category is riba,
\* else gharar, else haram activities (haram activity or prohibited sector),
\* else maysir, else other; keywords match whatever the case of the letters.
C16_ClassifiersFollowKeywordRules ==
    /\ c_pc \in {"severity", "done"} =>
           /\ c_severity \in {"high", "medium", "low"}
           /\ c_severity = "high" <=> Mentions(<<"riba">>)
           /\ c_severity = "medium" <=> (~Mentions(<<"riba">>) /\ MentionsGharar)
           /\ c_reason = << >> => c_severity = "low"
    /\ c_pc = "done" =>
           /\ c_category \in {<<"riba">>, <<"gharar">>, <<"haram", "activities">>,
                              <<"maysir">>, <<"other">>}
           /\ c_category = <<"riba">> <=> Mentions(<<"riba">>)
           /\ c_category = <<"gharar">> <=> (~Mentions(<<"riba">>) /\ MentionsGharar)
           /\ c_category = <<"haram", "activities">>
                  <=> (~Mentions(<<"riba">>) /\ ~MentionsGharar /\ MentionsHaram)
           /\ c_category = <<"maysir">>
                  <=> (~Mentions(<<"riba">>) /\ ~MentionsGharar /\ ~MentionsHaram
                         /\ Mentions(<<"maysir">>))

\* C16 witness: a text naming riba in capitals after gharar and maysir has been
\* classified high and riba
C16_Witness ==
    /\ c_pc = "done"
    /\ c_reason = <<"maysir", "gharar", "Riba">>
    /\ c_severity = "high"
    /\ c_category = <<"riba">>

\* the documents all_docs holds under the file name n
DocsOf(n) ==
    LET Mine(d) == d.source = n
    IN  SelectSeq(i_all_docs, Mine)

\* a file of the folder has given a page
SomePageLoaded ==
    \E j \in 1..Len(i_pdf_files) : i_pdf_files[j].loads /\ i_pdf_files[j].pages # << >>

\* C18: whatever the folder holds, at least one chunk is handed to the index;
\* when no document loads, the chunks come from the five seed statements
\* tagged default_principles.pdf.
C18_AtLeastOneChunk ==
    i_pc = "split" =>
        /\ Len(i_chunks) >= 1
        /\ ~SomePageLoaded => i_all_docs = SeedDocs

\* C19: a file that fails to load adds nothing to all_docs and every file that
\* loads, before or after it, adds all of its pages tagged with its own name.
C19_FailedDocumentSkipped ==
    i_pc \in {"loading", "split"} =>
        /\ \A j \in 1..(i_next - 1) :
               LET file == i_pdf_files[j]
                   mine == DocsOf(file.name)
               IN  IF file.loads
                   THEN [k \in 1..Len(mine) |-> mine[k].len] = file.pages
                   ELSE mine = << >>
        /\ i_pc = "split" => i_next = Len(i_pdf_files) + 1

\* C19 witness: the first file failed and the pages of the second are in
\* all_docs under its name
C19_Witness ==
    /\ i_pc = "split"
    /\ Len(i_pdf_files) = 2
    /\ ~i_pdf_files[1].loads
    /\ i_pdf_files[2].pages = <<500, 2000>>
    /\ i_all_docs = <<[source |-> i_pdf_files[2].name, len |-> 500],
                      [source |-> i_pdf_files[2].name, len |-> 2000]>>

\* the assessments listed under violations
Listed == {verdict.violations[i] : i \in 1..Len(verdict.violations)}

IsListed(e) == e \in Listed

LowCategories == {<<"haram", "activities">>, <<"maysir">>, <<"other">>}

\* C27: in every non-compliant assessment of a returned verdict severity is
\* high exactly when category is riba, medium exactly when category is gharar,
\* and low exactly when category is haram activities, maysir or other.
C27_SeverityAgreesWithCategory ==
    VerdictReturned =>
        \A i \in 1..Len(Entries) :
            Entries[i].v["compliant"] = JBool(FALSE) =>
                /\ CarriesSeverityAndCategory(Entries[i])
                /\ Entries[i].v["severity"] = JStr(<<"high">>)
                       <=> Entries[i].v["category"] = JStr(<<"riba">>)
                /\ Entries[i].v["severity"] = JStr(<<"medium">>)
                       <=> Entries[i].v["category"] = JStr(<<"gharar">>)
                /\ Entries[i].v["severity"] = JStr(<<"low">>)
                       <=> Entries[i].v["category"].v \in LowCategories

\* C27 witness: a verdict with a high riba violation and a medium gharar one
C27_Witness ==
    /\ VerdictReturned
    /\ Len(Entries) = 2
    /\ Entries[1].v["compliant"] = JBool(FALSE)
    /\ Entries[1].v["severity"] = JStr(<<"high">>)
    /\ Entries[2].v["compliant"] = JBool(FALSE)
    /\ Entries[2].v["severity"] = JStr(<<"medium">>)

CheckKeys == {"clause", "compliant", "reason"}

\* C28: the attribution step of the loop leaves clause, compliant and reason
\* as the compliance check gave them and adds or changes nothing but
\* source_doc and source_text (and, for a non-compliant clause, the severity
\* and category derived from that reason).
C28_AttributionChangesOnlySourceFields ==
    [][(pc = "source" /\ pc' \in {"sleep", "suggest"}) =>
          /\ \A k \in DOMAIN result.v \cap CheckKeys : result'.v[k] = result.v[k]
          /\ \A k \in DOMAIN result.v \ (SourceKeys \cup {"severity", "category"}) :
                 k \in DOMAIN result'.v /\ result'.v[k] = result.v[k]
          /\ DOMAIN result'.v \ DOMAIN result.v \subseteq SourceKeys \cup {"severity", "category"}
          /\ pc' = "sleep" =>
                 /\ DOMAIN result'.v \ DOMAIN result.v \subseteq SourceKeys
                 /\ \A k \in DOMAIN result.v \ SourceKeys : result'.v[k] = result.v[k]
          /\ pc' = "suggest" =>
                 /\ result'.v["severity"] = JStr(<<ClassifySeverity(result.v["reason"].v)>>)
                 /\ result'.v["category"]
                        = JStr(ClassifyViolationCategory(result.v["reason"].v))]_vars

\* C28 witness: a non-compliant assessment has got its source and has been
\* classified by the reason of the compliance check
C28_Witness ==
    /\ pc = "suggest"
    /\ Has(result, "source_text")
    /\ result.v["reason"] = JStr(RibaReason)
    /\ result.v["severity"] = JStr(<<"high">>)

\* the steps one audit goes through, each with the steps that may follow it
StepsAfter(step) ==
    CASE step = "extract" -> {"check", "done"}
      [] step = "check" -> {"check", "source", "done"}
      [] step = "source" -> {"suggest", "sleep", "done"}
      [] step = "suggest" -> {"suggest", "sleep", "done"}
      [] step = "sleep" -> {"check", "done"}
      [] OTHER -> {}

\* C23: within one audit the steps follow each other in a fixed order, one
\* service call at a time: extraction, then for each clause in turn the
\* compliance check, the source lookup and, only for a clause that is not
\* compliant, the remediation request; clause i + 1 starts after the
\* assessment of clause i is complete.
C23_StepsAreSequential ==
    [][(op' = "audit") =>
          /\ op # "audit" => pc' \in {"extract", "done"}
          /\ (op = "audit" /\ pc' # pc) => pc' \in StepsAfter(pc)
          /\ si_status' = "active" => pc' \in {"check", "suggest"}
          /\ (pc = "extract" /\ pc' = "check") =>
                 /\ idx' = 1
                 /\ structured_data' # EmptyDict
                 /\ audit_results' = << >>
          /\ (pc = "sleep" /\ pc' = "check") =>
                 /\ idx' = idx + 1
                 /\ Len(audit_results') = idx
          /\ ~(pc \in {"extract", "sleep"} /\ pc' = "check") => idx' = idx
          /\ (pc = "source" /\ pc' = "suggest") => result'.v["compliant"] # JBool(TRUE)
          /\ pc' \in {"check", "source", "suggest"} => Len(audit_results') = idx' - 1]_vars

\* C23 witness: the remediation of the second clause is being requested, the
\* assessment of the first is complete
C23_Witness ==
    /\ op = "audit"
    /\ pc = "suggest"
    /\ idx = 2
    /\ Len(audit_results) = 1

\* C24: when the compliance check of a clause after the first is about to be
\* requested, the loop has slept at least 1 second (10 tenths) since the
\* compliance-check request before it.
C24_PacedBetweenClauses ==
    (op = "audit" /\ pc = "check" /\ si_log = << >> /\ idx > 1) => waited >= 10

\* C24 witness: the second clause is about to be checked after a first clause
\* that was compliant and got no source
C24_Witness ==
    /\ op = "audit"
    /\ pc = "check"
    /\ si_log = << >>
    /\ idx = 2
    /\ audit_results[1].v["compliant"] = JBool(TRUE)
    /\ ~Has(audit_results[1], "source_doc")
    /\ waited = SleepTenths

\* how many entries of the sequence seq equal x
Count(seq, x) == Cardinality({k \in 1..Len(seq) : seq[k] = x})

\* C21: however many times the index has been built from the same chunks at
\* the same location, the store holds each chunk as many times as one build
\* gives it: a second build adds no duplicate.
C21_BuildIsIdempotent ==
    i_pc = "built" =>
        /\ Len(i_store) = Len(i_chunks)
        /\ \A k \in 1..Len(i_chunks) : Count(i_store, i_chunks[k]) = Count(i_chunks, i_chunks[k])

\* C26: the process builds the index once, before it serves: while the build
\* runs, or when it has failed and the process has exited, no request is
\* being served, and a request is served or queries the index only after the
\* one build has finished; no request adds a build.
C26_BuildNeverOverlapsQuery ==
    /\ v_builds <= 1
    /\ v_phase \in {"importing", "building", "exited"} =>
           \A t \in Threads : v_threads[t] = IdleThread
    /\ \A t \in Threads :
           v_threads[t].pc # "idle" => (v_phase = "serving" /\ v_builds = 1)

\* C26 witness: two requests query the index at the same time, after the one
\* build
C26_Witness ==
    /\ v_phase = "serving"
    /\ v_builds = 1
    /\ v_threads[1].pc = "query"
    /\ v_threads[2].pc = "query"

\* a source failed with a network error during the search
NetworkFailureSeen ==
    \E i \in 1..Len(q_log) : q_log[i].kind \in {"RequestException", "ConnectionError"}

\* C25: when a source fails with a network error (requests.RequestException
\* or ConnectionError) the search is attempted again, up to 3 attempts: a
\* search that has ended after such a failure was attempted more than once.
C25_NetworkFailureRetried ==
    (q_pc \in {"returned", "raised"} /\ NetworkFailureSeen) =>
        (q_attempts > 1 /\ q_attempts <= 3)

\* the sources in the order they are to be tried
SourceOrder ==
    (IF q_key THEN <<"primary">> ELSE << >>)
        \o [k \in 1..NumFallbacks |-> "fallback"] \o <<"simulated">>

\* C29: search_standards never raises and returns at most max_results
\* results; the sources are queried in the order primary (with an API key
\* only), fallback endpoints, simulated results, and the first that answers
\* ends the search with its results.
C29_SearchNeverRaises ==
    /\ q_pc # "raised"
    /\ Len(q_log) <= Len(SourceOrder)
    /\ \A i \in 1..Len(q_log) : q_log[i].src = SourceOrder[i]
    /\ \A i \in 1..(Len(q_log) - 1) : q_log[i].kind # "ok"
    /\ q_pc = "returned" =>
           /\ q_log # << >>
           /\ q_log[Len(q_log)].kind = "ok"
           /\ Len(q_results) <= q_max
           /\ \A k \in 1..Len(q_results) :
                  q_results[k].source_type
                      = CASE q_log[Len(q_log)].src = "primary" -> "search"
                          [] q_log[Len(q_log)].src = "fallback" -> "specialized_database"
                          [] OTHER -> "simulated"
    /\ q_pc # "returned" => (q_log = << >> \/ q_log[Len(q_log)].kind # "ok")

\* C29 witness: with an API key the primary service and both fallback
\* endpoints failed and the simulated results, cut to max_results, were returned
C29_Witness ==
    /\ q_pc = "returned"
    /\ q_key
    /\ Len(q_log) = 4
    /\ q_log[1].kind = "OtherError"
    /\ q_log[2].kind = "malformed"
    /\ q_log[3].kind = "status"
    /\ q_query = {"riba", "gharar", "maysir"}
    /\ q_max = 2
    /\ Len(q_results) = 2

\* C30: the zakat base is the total of the zakatable assets minus the total
\* of the deductible liabilities; below the nisab (5950.00) exceeds_nisab is
\* false and zakat_amount is 0, otherwise exceeds_nisab is true and
\* zakat_amount is 2.5% of the base; zakat_amount is not 0 only when the
\* base reaches the nisab.
C30_ZakatFollowsNisab ==
    z_pc = "done" =>
        LET base == z_calc.total_zakatable_assets - z_calc.total_deductible_liabilities
        IN  /\ z_calc.zakat_base = base
            /\ base < 595000 => (~z_calc.exceeds_nisab /\ z_calc.zakat_amount = 0)
            /\ base >= 595000 =>
                   (z_calc.exceeds_nisab /\ 40 * z_calc.zakat_amount = base * 1000)
            /\ z_calc.zakat_amount # 0 => base >= 595000

\* C30 witness: a base of exactly the nisab, 5950.00, with zakat 148.75
C30_Witness ==
    /\ z_pc = "done"
    /\ z_calc.zakat_base = 595000
    /\ z_calc.exceeds_nisab
    /\ z_calc.zakat_amount = 14875000

====
